---- MODULE Spec2Model ----
(***************************************************************************)
(* oci_config_writer: the three public operations profile, credentials and *)
(* report, acting on the files they touch.  The state is the file system   *)
(* restricted to the three paths the code can name, the process            *)
(* environment (working directory, whether the home directory resolves),   *)
(* and a record of the last call and of the last text report read.         *)
(***************************************************************************)
EXTENDS Integers, Sequences, FiniteSets, TLC

(* ------------------------------ bounds -------------------------------- *)

\* number of public calls in one run of the process
MaxCalls == 3
\* a failing write_all has written at most this many bytes of the block
MaxCut == 1

(* ------------------------------ inputs -------------------------------- *)

Users        == {"u1", "u2"}
Fingerprints == {"aa:bb"}
KeyFiles     == {"/keys/oci"}
Tenancies    == {"t1"}
RegionCodes  == {"IAD", "XXX"}
PassPhrases  == {"pw"}

(* --------------------------- paths and files -------------------------- *)

DIR  == ".oci"
NAME == "config"

\* the two directories of the environment: the user's home directory and
\* some other directory the process may be started in
HomeDir == "/home/user"
WorkDir == "/work"

\* Path::join of a relative path onto a base directory
Join(base, rel) == base \o "/" \o rel

\* format!("{}/{}", DIR, NAME), PathBuf::from(DIR).push(NAME)
ConfigRel == DIR \o "/" \o NAME

\* the relative path admin() joins onto the home directory
AdminRel == ".ocloud/config"

HomeCfg    == Join(HomeDir, ConfigRel)
HomeOcloud == Join(HomeDir, AdminRel)
WorkCfg    == Join(WorkDir, ConfigRel)

Paths == {HomeCfg, HomeOcloud, WorkCfg}

\* permission modes of a file
ModeSafe     == "rw-------"
ModeWide     == "rw-r--r--"
ModeReadOnly == "r--r--r--"

OwnerWritable(mode) == SubSeq(mode, 2, 2) = "w"

NoFile == [exists |-> FALSE, content |-> "", mode |-> ""]
EmptyFile(mode) == [exists |-> TRUE, content |-> "", mode |-> mode]

VARIABLES
    cwd,      \* the working directory relative paths resolve against
    homeOk,   \* UserDirs::new() is Some(..)
    fs,       \* path -> [exists, content, mode]
    pc,       \* "ready" or "panicked"
    calls,    \* number of public calls made
    last,     \* what the last call was and did
    prev,     \* what the call before it was and did
    out       \* what the last report() read

vars == <<cwd, homeOk, fs, pc, calls, last, prev, out>>

(* ---------------------------- text helpers ---------------------------- *)

IsPrefix(s, t) == Len(s) <= Len(t) /\ SubSeq(t, 1, Len(s)) = s

EndsWith(t, s) == Len(s) <= Len(t) /\ SubSeq(t, Len(t) - Len(s) + 1, Len(t)) = s

Contains(t, s) ==
    \E i \in 1..(Len(t) - Len(s) + 1) : SubSeq(t, i, i + Len(s) - 1) = s

(* ------------------------- region resolver ---------------------------- *)

\* region::identifier: exact-match table lookup, unknown codes pass through
identifier(code) ==
    CASE code = "IAD" -> "us-ashburn-1"
      [] code = "PHX" -> "us-phoenix-1"
      [] code = "FRA" -> "eu-frankfurt-1"
      [] OTHER -> code

(* --------------------------- config writer ---------------------------- *)

\* the mutated formatter: the header of the other block kind
profile_entry_admin_header(p) ==
    "[ADMIN_USER]\nuser: " \o p.user \o "\nfingerprint: " \o p.fingerprint
        \o "\nkey_file: " \o p.key_file \o "\ntenancy: " \o p.tenancy
        \o "\nregion: " \o p.region \o "\n\n"

\* Profile::profile_entry
profile_entry(p) ==
    "[DEFAULT]\nuser: " \o p.user \o "\nfingerprint: " \o p.fingerprint
        \o "\nkey_file: " \o p.key_file \o "\ntenancy: " \o p.tenancy
        \o "\nregion: " \o p.region \o "\n\n"

\* the format! of admin()
admin_entry(user, fingerprint, key_file, pass_phrase) ==
    "[ADMIN_USER]\nuser=" \o user \o "\nfingerprint=" \o fingerprint
        \o "\nkey_file=" \o key_file \o "\npass_phrase=" \o pass_phrase \o "\n\n"

\* OpenOptions::new().write(true).append(true).open(p): no create, no truncate;
\* fails on an absent file and on one the owner may not write
OpenAppend(fsys, p) == fsys[p].exists /\ OwnerWritable(fsys[p].mode)

\* File::write_all on a handle opened for append: the bytes go to the end of
\* the file; k = Len(bytes) is Ok, k < Len(bytes) is an Err after k bytes
write_all(fsys, p, bytes, k) ==
    [fsys EXCEPT ![p].content = @ \o SubSeq(bytes, 1, k)]

\* the byte counts a write_all of bytes can end with
Cuts(bytes) == {k \in 0..Len(bytes) : k <= MaxCut} \cup {Len(bytes)}

\* what a writer reports: the file system after it, the file it opened,
\* whether the open succeeded, the bytes written and the value returned
WriteResult(fsys, p, opened, wrote, ret) ==
    [fs |-> fsys, target |-> p, opened |-> opened, wrote |-> wrote, ret |-> ret]

\* the mutated writer: the file is opened with truncate instead of append
write_to_config_truncate(fsys, path, entry, k) ==
    LET p == Join(HomeDir, path) IN
    IF OpenAppend(fsys, p)
    THEN WriteResult([fsys EXCEPT ![p].content = SubSeq(entry, 1, k)], p, TRUE, k, "Ok")
    ELSE WriteResult(fsys, p, FALSE, 0, "Ok")

\* the mutated writer: a failed open is propagated as Err
write_to_config_propagate(fsys, path, entry, k) ==
    LET p == Join(HomeDir, path) IN
    IF OpenAppend(fsys, p)
    THEN WriteResult(write_all(fsys, p, entry, k), p, TRUE, k, "Ok")
    ELSE WriteResult(fsys, p, FALSE, 0, "Err")

\* Profile::write_to_config, past the unwrap of the home directory
write_to_config(fsys, path, entry, k) ==
    LET p == Join(HomeDir, path) IN
    IF OpenAppend(fsys, p)
    THEN WriteResult(write_all(fsys, p, entry, k), p, TRUE, k, "Ok")
    ELSE WriteResult(fsys, p, FALSE, 0, "Ok")

\* account::admin, past the unwrap of the home directory
admin(fsys, user, fingerprint, key_file, pass_phrase, k) ==
    LET p == Join(HomeDir, AdminRel)
        entry == admin_entry(user, fingerprint, key_file, pass_phrase) IN
    IF OpenAppend(fsys, p)
    THEN WriteResult(write_all(fsys, p, entry, k), p, TRUE, k, "unit")
    ELSE WriteResult(fsys, p, FALSE, 0, "unit")

(* ----------------------------- file guard ----------------------------- *)

\* the path the file module resolves a relative name to: the config file
\* lives under the user's home directory
GuardPath(rel) == Join(HomeDir, rel)

\* file::create(dir, name): verify existence; if absent create the directory
\* and an empty file; a failure (ok = FALSE) is reported and not fatal
create(fsys, dir, name, ok) ==
    LET p == GuardPath(dir \o "/" \o name) IN
    IF homeOk /\ ~fsys[p].exists /\ ok
    THEN [fsys EXCEPT ![p] = EmptyFile(ModeWide)]
    ELSE fsys

\* file::permissions(path): an existing file gets owner read/write only
permissions(fsys, path) ==
    LET p == GuardPath(path) IN
    IF homeOk /\ fsys[p].exists
    THEN [fsys EXCEPT ![p].mode = ModeSafe]
    ELSE fsys

\* file::read(path): the whole file as text, or a reported failure
read(fsys, path) ==
    LET p == GuardPath(path) IN
    IF homeOk /\ fsys[p].exists
    THEN [ok |-> TRUE, text |-> fsys[p].content]
    ELSE [ok |-> FALSE, text |-> ""]

(* --------------------------- public operations ------------------------ *)

\* path.exists() on the relative PathBuf: resolved against the working directory
path_exists(fsys, rel) == fsys[Join(cwd, rel)].exists

NoCall ==
    [op |-> "none", args |-> <<>>, entry |-> "", target |-> "", existed |-> FALSE,
     premode |-> "", opened |-> FALSE, wrote |-> 0, fault |-> FALSE, ret |-> ""]

Panicked(op, args, entry) ==
    [op |-> op, args |-> args, entry |-> entry, target |-> "", existed |-> FALSE,
     premode |-> "", opened |-> FALSE, wrote |-> 0, fault |-> FALSE, ret |-> "panic"]

CallRecord(op, args, entry, before, w, createFailed) ==
    [op |-> op, args |-> args, entry |-> entry, target |-> w.target,
     existed |-> before[w.target].exists, premode |-> before[w.target].mode,
     opened |-> w.opened, wrote |-> w.wrote,
     fault |-> (createFailed \/ (w.opened /\ w.wrote < Len(entry))),
     ret |-> w.ret]

\* profile(user, fingerprint, key_file, tenancy, home): the existence check on
\* the relative path, then create or permissions, then write_to_config, whose
\* first statement unwraps the home directory and panics when there is none.
\* The second library entry module has the same guard and hands the same
\* arguments to the account module's writer.
ProfileCall(user, fingerprint, key_file, tenancy, home, createOk, k) ==
    LET default_profile == [user |-> user, fingerprint |-> fingerprint,
                            key_file |-> key_file, tenancy |-> tenancy,
                            region |-> identifier(home)]
        entry   == profile_entry(default_profile)
        args    == <<user, fingerprint, key_file, tenancy, home>>
        absent  == ~path_exists(fs, ConfigRel)
        guarded == IF absent
                   THEN create(fs, DIR, NAME, createOk)
                   ELSE permissions(fs, ConfigRel)
        w       == write_to_config(guarded, ConfigRel, entry, k)
        createFailed == absent /\ ~fs[GuardPath(ConfigRel)].exists /\ ~createOk
    IN
    /\ pc = "ready"
    /\ calls < MaxCalls
    /\ calls' = calls + 1
    /\ prev' = last
    /\ IF ~homeOk
       THEN /\ pc' = "panicked"
            /\ last' = Panicked("profile", args, entry)
            /\ UNCHANGED fs
       ELSE /\ fs' = w.fs
            /\ last' = CallRecord("profile", args, entry, fs, w, createFailed)
            /\ UNCHANGED pc
    /\ UNCHANGED <<cwd, homeOk, out>>

\* credentials(user, fingerprint, key_file, pass_phrase): permissions on
\* DIR/NAME, then admin, whose first statement unwraps the home directory
CredentialsCall(user, fingerprint, key_file, pass_phrase, k) ==
    LET entry   == admin_entry(user, fingerprint, key_file, pass_phrase)
        args    == <<user, fingerprint, key_file, pass_phrase>>
        guarded == permissions(fs, ConfigRel)
        w       == admin(guarded, user, fingerprint, key_file, pass_phrase, k)
    IN
    /\ pc = "ready"
    /\ calls < MaxCalls
    /\ calls' = calls + 1
    /\ prev' = last
    /\ IF ~homeOk
       THEN /\ pc' = "panicked"
            /\ last' = Panicked("credentials", args, entry)
            /\ UNCHANGED fs
       ELSE /\ fs' = w.fs
            /\ last' = CallRecord("credentials", args, entry, fs, w, FALSE)
            /\ UNCHANGED pc
    /\ UNCHANGED <<cwd, homeOk, out>>

\* the mutated report: it calls the file guard's create before reading
report_creates(fsys) ==
    LET made == create(fsys, DIR, NAME, TRUE) IN
    [fs |-> made, out |-> read(made, ConfigRel)]

\* report(): read(".oci/config")
report(fsys) == [fs |-> fsys, out |-> read(fsys, ConfigRel)]

Report ==
    /\ pc = "ready"
    /\ calls < MaxCalls
    /\ calls' = calls + 1
    /\ prev' = last
    /\ fs' = report(fs).fs
    /\ out' = report(fs).out
    /\ last' = [NoCall EXCEPT !.op = "report", !.ret = "unit"]
    /\ UNCHANGED <<cwd, homeOk, pc>>

(* ------------------------------ behaviours ---------------------------- *)

\* the process starts in some directory, with a home directory that does or
\* does not resolve; each file is absent or empty, with some mode
Init ==
    /\ cwd \in {HomeDir, WorkDir}
    /\ homeOk \in BOOLEAN
    /\ fs \in [Paths -> {NoFile, EmptyFile(ModeSafe), EmptyFile(ModeWide),
                         EmptyFile(ModeReadOnly)}]
    /\ fs[WorkCfg] \in {NoFile, EmptyFile(ModeWide)}
    /\ (cwd = HomeDir => fs[WorkCfg] = NoFile)
    /\ fs[HomeOcloud] \in {NoFile, EmptyFile(ModeWide)}
    /\ pc = "ready"
    /\ calls = 0
    /\ last = NoCall
    /\ prev = NoCall
    /\ out = [ok |-> FALSE, text |-> ""]

\* the environment decides whether a creation succeeds and how many bytes a
\* write_all gets out before it fails, if it fails
Profile ==
    \E user \in Users, fingerprint \in Fingerprints, key_file \in KeyFiles,
       tenancy \in Tenancies, home \in RegionCodes, createOk \in BOOLEAN :
        \E k \in Cuts(profile_entry([user |-> user, fingerprint |-> fingerprint,
                                     key_file |-> key_file, tenancy |-> tenancy,
                                     region |-> identifier(home)])) :
            ProfileCall(user, fingerprint, key_file, tenancy, home, createOk, k)

Credentials ==
    \E user \in Users, fingerprint \in Fingerprints, key_file \in KeyFiles,
       pass_phrase \in PassPhrases :
        \E k \in Cuts(admin_entry(user, fingerprint, key_file, pass_phrase)) :
            CredentialsCall(user, fingerprint, key_file, pass_phrase, k)

Next == Profile \/ Credentials \/ Report

Spec == Init /\ [][Next]_vars

(* ------------------- the blocks the specification describes ----------- *)

\* the [DEFAULT] block of the file format: header, five "key: value" lines,
\* a blank line
SpecDefaultBlock(user, fingerprint, key_file, tenancy, region) ==
    "[DEFAULT]\n" \o "user: " \o user \o "\n" \o "fingerprint: " \o fingerprint \o "\n"
        \o "key_file: " \o key_file \o "\n" \o "tenancy: " \o tenancy \o "\n"
        \o "region: " \o region \o "\n" \o "\n"

\* the [ADMIN_USER] block of the file format: header, four "key=value" lines,
\* a blank line
SpecAdminBlock(user, fingerprint, key_file, pass_phrase) ==
    "[ADMIN_USER]\n" \o "user=" \o user \o "\n" \o "fingerprint=" \o fingerprint \o "\n"
        \o "key_file=" \o key_file \o "\n" \o "pass_phrase=" \o pass_phrase \o "\n" \o "\n"

\* the canonical identifier the specification gives for a region code
SpecRegion(code) == IF code = "IAD" THEN "us-ashburn-1" ELSE code

\* the block a profile call with these arguments is to leave in the file
ExpectedDefault(args) ==
    SpecDefaultBlock(args[1], args[2], args[3], args[4], SpecRegion(args[5]))

\* the block a credentials call with these arguments is to leave in the file
ExpectedAdmin(args) == SpecAdminBlock(args[1], args[2], args[3], args[4])

\* a call that ran to its end with no failure injected by the environment
Clean(c) == ~c.fault /\ c.ret # "panic"

\* a call whose open succeeded and whose write_all wrote the whole block
FullWrite(c) == c.opened /\ c.wrote = Len(c.entry)

\* the step is one call of a writer
WriterStep == calls' = calls + 1 /\ last'.op \in {"profile", "credentials"}

\* positions in t where a line starts with the header h
HeaderAt(t, h) ==
    {i \in 1..Len(t) : /\ (i = 1 \/ SubSeq(t, i - 1, i - 1) = "\n")
                       /\ i + Len(h) - 1 <= Len(t)
                       /\ SubSeq(t, i, i + Len(h) - 1) = h}

DefaultAt(t) == HeaderAt(t, "[DEFAULT]\n")
AdminAt(t)   == HeaderAt(t, "[ADMIN_USER]\n")

\* first position of the blank line that ends a block, 0 if there is none
FirstBlank(t) ==
    LET at == {i \in 1..(Len(t) - 1) : SubSeq(t, i, i + 1) = "\n\n"} IN
    IF at = {} THEN 0 ELSE CHOOSE i \in at : \A j \in at : i <= j

\* b is a header line followed by key/value lines (the blank line cut off)
IsBlockBody(b) ==
    LET nl == {i \in 1..Len(b) : SubSeq(b, i, i) = "\n"}
        starts == {1} \cup {i + 1 : i \in nl}
        LineEnd(i) == IF \E j \in nl : j >= i
                      THEN (CHOOSE j \in nl : j >= i /\ \A m \in nl : m >= i => j <= m) - 1
                      ELSE Len(b)
        Line(i) == SubSeq(b, i, LineEnd(i))
    IN /\ Len(b) > 0
       /\ SubSeq(Line(1), 1, 1) = "[" /\ EndsWith(Line(1), "]")
       /\ Cardinality(starts) >= 2
       /\ \A i \in starts \ {1} : Contains(Line(i), ": ") \/ Contains(Line(i), "=")

RECURSIVE IsCompleteBlocks(_)
\* t is a concatenation of complete blocks
IsCompleteBlocks(t) ==
    IF t = "" THEN TRUE
    ELSE LET e == FirstBlank(t) IN
         /\ e > 0
         /\ IsBlockBody(SubSeq(t, 1, e - 1))
         /\ IsCompleteBlocks(SubSeq(t, e + 2, Len(t)))

(* -------------------------------- claims ------------------------------ *)

\* C1: append-only.  Every step leaves every existing file in existence with
\* its former content as a prefix of its new content, and a profile call that
\* wrote its whole block right after a profile call that wrote its whole
\* block leaves the file ending with the two [DEFAULT] blocks in call order.
C1_AppendOnly ==
    [][ /\ \A p \in Paths :
              fs[p].exists => fs'[p].exists /\ IsPrefix(fs[p].content, fs'[p].content)
        /\ (/\ calls' = calls + 1
            /\ last.op = "profile" /\ FullWrite(last)
            /\ last'.op = "profile" /\ FullWrite(last'))
           => EndsWith(fs'[HomeCfg].content,
                       ExpectedDefault(last.args) \o ExpectedDefault(last'.args)) ]_vars

\* C1 witness: two profile calls on an empty file left exactly their two blocks
C1_Witness ==
    /\ last.op = "profile" /\ prev.op = "profile"
    /\ FullWrite(last) /\ FullWrite(prev)
    /\ fs[HomeCfg].content = ExpectedDefault(prev.args) \o ExpectedDefault(last.args)
    /\ Cardinality(DefaultAt(fs[HomeCfg].content)) = 2

\* C2: round trip.  A report right after a profile call that ran clean, on a
\* config file that was absent or writable by its owner, reads a text
\* containing the [DEFAULT] block of that call's inputs, the region code
\* replaced by its identifier.
C2_RoundTrip ==
    (/\ last.op = "report" /\ prev.op = "profile" /\ Clean(prev)
     /\ (prev.existed => OwnerWritable(prev.premode)))
        => (out.ok /\ Contains(out.text, ExpectedDefault(prev.args)))

\* C3: credentials appends its [ADMIN_USER] block to the file profile writes
\* and report reads: a report after a clean credentials call, reading a file
\* that holds a [DEFAULT] block, reads the [ADMIN_USER] block at its end.
C3_SameFile ==
    (/\ last.op = "report" /\ prev.op = "credentials" /\ Clean(prev)
     /\ out.ok /\ DefaultAt(out.text) # {})
        => EndsWith(out.text, ExpectedAdmin(prev.args))

C5_NormalizedBeforeAppend ==
    (last.op \in {"profile", "credentials"} /\ last.opened /\ last.existed)
        => fs[last.target].mode = ModeSafe

\* C6: a failed open is silent and changes nothing.  A writer whose open
\* failed leaves the existence and the content of every file as they were
\* and completes normally, write_to_config returning Ok.
C6_FailedOpenChangesNothing ==
    [][ (WriterStep /\ last'.ret # "panic" /\ ~last'.opened)
        => /\ \A p \in Paths : /\ fs'[p].exists = fs[p].exists
                               /\ fs'[p].content = fs[p].content
           /\ pc' = "ready"
           /\ last'.ret = (IF last'.op = "profile" THEN "Ok" ELSE "unit") ]_vars

\* C6 witness: a profile call whose open failed on an absent file
C6_Witness ==
    /\ last.op = "profile" /\ last.ret = "Ok" /\ ~last.opened
    /\ ~fs[last.target].exists

\* C7: a home directory that does not resolve never crashes the process.
C7_NoPanic == pc # "panicked"

\* C8: report is read-only and idempotent.  A report step leaves the file
\* system as it was, and right after another report it reads the same.
C8_ReportReadOnly ==
    [][ (calls' = calls + 1 /\ last'.op = "report")
        => /\ fs' = fs
           /\ (last.op = "report" => out' = out) ]_vars

\* C8 witness: two reports in a row read the block a profile call wrote
C8_Witness ==
    /\ last.op = "report" /\ prev.op = "report"
    /\ out.ok /\ DefaultAt(out.text) # {}

\* C9: first-use creation.  A clean profile call made while <home>/.oci/config
\* was absent leaves that file in existence, holding exactly its block.
C9_FirstUse ==
    (last.op = "profile" /\ Clean(last) /\ last.target = HomeCfg /\ ~last.existed)
        => /\ fs[HomeCfg].exists
           /\ fs[HomeCfg].content = ExpectedDefault(last.args)

\* C10: whole-block writes.  Every file's content is a concatenation of
\* complete blocks, also after a failed write.
C10_WholeBlocks == \A p \in Paths : IsCompleteBlocks(fs[p].content)

====
